---- MODULE Spec2Model ----
(***************************************************************************)
(* BullGuru: the strikeout-pitch collector (collect_strikeout_data.py) and *)
(* the pattern-table trainer (train_model.py), as one state machine.       *)
(*                                                                         *)
(* Three scripts are modelled, each with its own specification:            *)
(*   SpecZone     one call of plate_coords_to_zone(plate_x, plate_z)       *)
(*   SpecCollect  the collection loop of collect_strikeout_data.py         *)
(*   SpecTrain    one run of train_model.py over a corpus file             *)
(* Spec runs any one of the three.                                         *)
(*                                                                         *)
(* Plate coordinates are exact multiples of 1/300 ft, so that the strike   *)
(* zone edges (-0.83, 0.83, 1.5, 3.5 ft) and the thirds of the zone are    *)
(* integers: -249, 249, 450, 1050 and 166, 200.                            *)
(***************************************************************************)
EXTENDS Integers, Sequences, FiniteSets, TLC

VARIABLES
    \* plate_coords_to_zone: position of the call, its arguments, its result
    zpc, plate_x, plate_z, zone,
    \* collect_strikeout_data.py: position, index of the year being collected,
    \* current, month_count, all_data, the statcast calls made so far, what
    \* the last call did, and df after pd.concat
    cpc, year_idx, current, month_count, all_data, requested, month_result, cdf,
    \* train_model.py: position; whether the parquet file exists and the rows
    \* it holds; df; pitch_type_freq and total_pitches; the sorted group keys of
    \* df.groupby and the index of the group being processed; the sorted
    \* at-bat and the index of its next row; atbat_count; the number of passes
    \* of the inner loop so far; the last context_key built; the five count
    \* tables; the effectiveness table; the content of public/model_data.json
    pc, file_exists, corpus, df, pitch_type_freq, total_pitches,
    grouped, group_idx, atbat, pos, atbat_count, pitches_done, context_key,
    success_patterns, first_pitch_patterns, first_pitch_by_type,
    count_patterns, matchup_patterns, optimal_zones_by_pitch, model_data

zoneVars == <<zpc, plate_x, plate_z, zone>>
collectVars ==
    <<cpc, year_idx, current, month_count, all_data, requested, month_result, cdf>>
tableVars ==
    <<success_patterns, first_pitch_patterns, first_pitch_by_type,
      count_patterns, matchup_patterns>>
trainVars ==
    <<pc, file_exists, corpus, df, pitch_type_freq, total_pitches,
      grouped, group_idx, atbat, pos, atbat_count, pitches_done, context_key,
      tableVars, optimal_zones_by_pitch, model_data>>
vars == <<zoneVars, collectVars, trainVars>>

----------------------------------------------------------------------------
(* Zone classifier: collect_strikeout_data.py, plate_coords_to_zone         *)

\* A missing coordinate (pandas NaN / None), outside every coordinate drawn.
NaN == -100000
\* The classifier's null result.
None == 0

\* A script that is not the one being run stays in its idle state.
ZoneIdle == zpc = "idle" /\ plate_x = NaN /\ plate_z = NaN /\ zone = None

CollectIdle ==
    /\ cpc = "idle" /\ year_idx = 0 /\ current = 0 /\ month_count = 0
    /\ all_data = <<>> /\ requested = <<>> /\ month_result = "none"
    /\ cdf = <<>>

TrainIdle ==
    /\ pc = "idle" /\ file_exists = FALSE /\ corpus = <<>> /\ df = <<>>
    /\ pitch_type_freq = <<>> /\ total_pitches = 0
    /\ grouped = <<>> /\ group_idx = 0 /\ atbat = <<>> /\ pos = 0
    /\ atbat_count = 0 /\ pitches_done = 0 /\ context_key = ""
    /\ success_patterns = <<>> /\ first_pitch_patterns = <<>>
    /\ first_pitch_by_type = <<>> /\ count_patterns = <<>>
    /\ matchup_patterns = <<>> /\ optimal_zones_by_pitch = <<>>
    /\ model_data = <<>>

sz_left == -249
sz_right == 249
sz_top == 1050
sz_bottom == 450

isna(v) == v = NaN

x_third == (sz_right - sz_left) \div 3
z_third == (sz_top - sz_bottom) \div 3

in_strike_x(x) == sz_left <= x /\ x <= sz_right
in_strike_z(z) == sz_bottom <= z /\ z <= sz_top

\* Column (0=left, 1=middle, 2=right) of the 3x3 grid.
StrikeCol(x) ==
    IF x < sz_left + x_third THEN 0
    ELSE IF x < sz_left + 2 * x_third THEN 1
    ELSE 2

\* Row (0=top, 1=middle, 2=bottom) of the 3x3 grid.
StrikeRow(z) ==
    IF z > sz_bottom + 2 * z_third THEN 0
    ELSE IF z > sz_bottom + z_third THEN 1
    ELSE 2

\* The five cells of the band above (base 10) or below (base 21) the zone.
BandZone(base, x) ==
    IF x < sz_left THEN base
    ELSE IF x < sz_left + (sz_right - sz_left) \div 3 THEN base + 1
    ELSE IF x < sz_left + (2 * (sz_right - sz_left)) \div 3 THEN base + 2
    ELSE IF x < sz_right THEN base + 3
    ELSE base + 4

\* The three cells beside the zone: left 15, 17, 19 and right 16, 18, 20.
SideZone(top, z) ==
    IF z > sz_bottom + 2 * z_third THEN top
    ELSE IF z > sz_bottom + z_third THEN top + 2
    ELSE top + 4

BallZoneSidesFirst(x, z) ==
    IF x < sz_left THEN SideZone(15, z)
    ELSE IF x > sz_right THEN SideZone(16, z)
    ELSE IF z > sz_top THEN BandZone(10, x)
    ELSE BandZone(21, x)

\* The else branch: the point is outside the strike rectangle.
BallZone(x, z) ==
    IF z > sz_top THEN BandZone(10, x)
    ELSE IF z < sz_bottom THEN BandZone(21, x)
    ELSE IF x < sz_left THEN SideZone(15, z)
    ELSE SideZone(16, z)

plate_coords_to_zone_strict(x, z) ==
    IF isna(x) \/ isna(z) THEN None
    ELSE IF (sz_left < x /\ x < sz_right) /\ (sz_bottom < z /\ z < sz_top)
         THEN StrikeRow(z) * 3 + StrikeCol(x) + 1
    ELSE BallZone(x, z)

plate_coords_to_zone(x, z) ==
    IF isna(x) \/ isna(z) THEN None
    ELSE IF in_strike_x(x) /\ in_strike_z(z)
         THEN StrikeRow(z) * 3 + StrikeCol(x) + 1
    ELSE BallZone(x, z)

\* Coordinates drawn: every threshold of the classifier, the points 1/300 ft
\* on either side of it, the midpoints between thresholds, and MaxK / MaxJ
\* half-thirds out from the centre of the zone.
MaxK == 4
MaxJ == 5

x_mid == (sz_left + sz_right) \div 2
z_mid == (sz_bottom + sz_top) \div 2

PlateXs == {x_mid + k * (x_third \div 2) + d : k \in -MaxK..MaxK, d \in {-1, 0, 1}}
PlateZs == {z_mid + j * (z_third \div 2) + d : j \in -MaxJ..MaxJ, d \in {-1, 0, 1}}

InitZone ==
    /\ zpc = "call"
    /\ plate_x \in PlateXs \cup {NaN}
    /\ plate_z \in PlateZs \cup {NaN}
    /\ zone = None
    /\ CollectIdle
    /\ TrainIdle

Classify ==
    /\ zpc = "call"
    /\ zone' = plate_coords_to_zone(plate_x, plate_z)
    /\ zpc' = "returned"
    /\ UNCHANGED <<plate_x, plate_z>>
    /\ UNCHANGED <<collectVars, trainVars>>

NextZone == Classify

SpecZone == InitZone /\ [][NextZone]_vars

----------------------------------------------------------------------------
(* Collection loop: collect_strikeout_data.py, lines 128-180                *)

AllYears == <<2019, 2020, 2021, 2022, 2023, 2024>>
\* The model collects the first NumYears seasons of AllYears, and at most
\* MaxChunks date ranges return rows.
NumYears == 2
MaxChunks == 3
years == SubSeq(AllYears, 1, NumYears)

\* Dates of one season are counted in days from March 1 (day 1) to
\* October 31 (day 245); no date of the loop leaves its calendar year.
MarchFirst == 1
OctoberLast == 245
ChunkDays == 30

start_date == MarchFirst
end_date == OctoberLast

chunk_end_uncapped(cur) == cur + ChunkDays

\* chunk_end = current + timedelta(days=30), cut at end_date.
chunk_end_of(cur) ==
    IF cur + ChunkDays > end_date THEN end_date ELSE cur + ChunkDays

\* What statcast(current, chunk_end) can do: raise, return None or an empty
\* frame, or return the rows of the date range.
FetchOutcomes == {"error", "empty", "rows"}

\* The rows of one date range, as one record standing for all of them.
chunk_rows(y, cur) == <<[year |-> y, from |-> cur, to |-> chunk_end_of(cur)]>>

all_data_lost_on_error(data, outcome, y, cur) ==
    IF outcome = "rows" THEN Append(data, chunk_rows(y, cur))
    ELSE IF outcome = "error" THEN <<>>
    ELSE data

\* try: ... all_data.append(chunk_data) ... except Exception: print, go on.
all_data_after(data, outcome, y, cur) ==
    IF outcome = "rows" THEN Append(data, chunk_rows(y, cur))
    ELSE data

RECURSIVE concat(_)
\* pd.concat(all_data, ignore_index=True)
concat(frames) ==
    IF frames = <<>> THEN <<>> ELSE Head(frames) \o concat(Tail(frames))

InitCollect ==
    /\ cpc = "for" /\ year_idx = 0 /\ current = 0 /\ month_count = 0
    /\ all_data = <<>> /\ requested = <<>> /\ month_result = "none"
    /\ cdf = <<>>
    /\ ZoneIdle
    /\ TrainIdle

\* for year in years: start_date, end_date, current, month_count.
NextYear ==
    /\ cpc = "for"
    /\ year_idx < Len(years)
    /\ year_idx' = year_idx + 1
    /\ current' = start_date
    /\ month_count' = 0
    /\ cpc' = "while"
    /\ UNCHANGED <<all_data, requested, month_result, cdf>>
    /\ UNCHANGED <<zoneVars, trainVars>>

\* One pass of the while body: the date range, the fetch, the advance.
FetchPartition ==
    /\ cpc = "while"
    /\ current <= end_date
    /\ \E outcome \in FetchOutcomes :
        /\ outcome = "rows" => Len(all_data) < MaxChunks
        /\ month_result' = outcome
        /\ all_data' = all_data_after(all_data, outcome, years[year_idx], current)
    /\ month_count' = month_count + 1
    /\ requested' = Append(requested, [year |-> years[year_idx], from |-> current,
                                       to |-> chunk_end_of(current)])
    /\ current' = chunk_end_of(current) + 1
    /\ UNCHANGED <<cpc, year_idx, cdf>>
    /\ UNCHANGED <<zoneVars, trainVars>>

\* The while condition fails: back to the for loop.
EndSeason ==
    /\ cpc = "while"
    /\ current > end_date
    /\ cpc' = "for"
    /\ UNCHANGED <<year_idx, current, month_count, all_data, requested,
                   month_result, cdf>>
    /\ UNCHANGED <<zoneVars, trainVars>>

\* After the loop: exit(1) if nothing was collected, else pd.concat.
Combine ==
    /\ cpc = "for"
    /\ year_idx = Len(years)
    /\ IF Len(all_data) = 0
       THEN cpc' = "exit1" /\ cdf' = cdf
       ELSE cpc' = "processing" /\ cdf' = concat(all_data)
    /\ UNCHANGED <<year_idx, current, month_count, all_data, requested,
                   month_result>>
    /\ UNCHANGED <<zoneVars, trainVars>>

NextCollect == NextYear \/ FetchPartition \/ EndSeason \/ Combine

SpecCollect == InitCollect /\ [][NextCollect]_vars

\* The script is one sequential process: statcast returns or raises, the
\* sleep ends, and the interpreter takes the next statement, so a step that
\* is possible is eventually taken.
FairSpecCollect == SpecCollect /\ WF_vars(NextCollect)

----------------------------------------------------------------------------
(* Trainer: train_model.py                                                  *)

\* A missing value of a text column; NaN is a missing value of a number.
NA == "<NA>"

required_cols ==
    <<"pitch_type", "description", "stand", "p_throws", "type",
      "balls", "strikes", "pitch_number", "zone">>
TextCols == {"pitch_type", "description", "stand", "p_throws", "type"}

IsMissing(row, col) ==
    IF col \in TextCols THEN row[col] = NA ELSE row[col] = NaN

\* df.dropna(subset=required_cols)
dropna(rows) ==
    SelectSeq(rows, LAMBDA r :
        \A i \in 1..Len(required_cols) : ~IsMissing(r, required_cols[i]))

\* pd.to_numeric(..., errors='coerce').fillna(1).astype(int)
coerce_pitch_number(row) ==
    [row EXCEPT !.pitch_number = IF @ = NaN THEN 1 ELSE @]

clean(rows) ==
    LET kept == dropna(rows)
    IN  [i \in 1..Len(kept) |-> coerce_pitch_number(kept[i])]

\* Rationals, as reduced pairs <<numerator, denominator>>.
RECURSIVE GCD(_, _)
GCD(a, b) == IF b = 0 THEN a ELSE GCD(b, a % b)
Frac(n, d) == LET g == GCD(n, d) IN <<n \div g, d \div g>>
FracDiv(a, b) == Frac(a[1] * b[2], a[2] * b[1])
FracMax(a, b) == IF a[1] * b[2] >= b[1] * a[2] THEN a ELSE b
\* The floor 0.01 of the effectiveness denominator.
FreqFloor == <<1, 100>>

Range(seq) == {seq[i] : i \in 1..Len(seq)}
\* Number of rows of the given pitch type.
CountType(rows, t) == Cardinality({i \in 1..Len(rows) : rows[i].pitch_type = t})

\* df['pitch_type'].value_counts() over len(df)
pitch_type_freq_of(rows) ==
    [t \in {r.pitch_type : r \in Range(rows)} |->
        Frac(CountType(rows, t), Len(rows))]

\* d[k][t] += 1 on a defaultdict of defaultdict(int) / Counter.
Incr(tbl, k, t) ==
    IF k \in DOMAIN tbl
    THEN IF t \in DOMAIN tbl[k]
         THEN [tbl EXCEPT ![k][t] = @ + 1]
         ELSE [tbl EXCEPT ![k] = @ @@ (t :> 1)]
    ELSE tbl @@ (k :> (t :> 1))

GroupKeyWithBatter(row) ==
    <<row.game_date, row.pitcher, row.batter, row.at_bat_number>>

\* df.groupby(['game_date', 'pitcher', 'at_bat_number'])
GroupKey(row) == <<row.game_date, row.pitcher, row.at_bat_number>>

RECURSIVE TupleLess(_, _)
TupleLess(a, b) ==
    /\ a # <<>>
    /\ \/ Head(a) < Head(b)
       \/ Head(a) = Head(b) /\ TupleLess(Tail(a), Tail(b))

RECURSIVE SortedKeys(_)
\* groupby iterates its groups in ascending key order.
SortedKeys(keys) ==
    IF keys = {} THEN <<>>
    ELSE LET m == CHOOSE k \in keys : \A o \in keys \ {k} : TupleLess(k, o)
         IN  <<m>> \o SortedKeys(keys \ {m})

group_keys(rows) == SortedKeys({GroupKey(r) : r \in Range(rows)})
GroupRows(rows, key) == SelectSeq(rows, LAMBDA r : GroupKey(r) = key)

IsSortedByPitchNumber(rows) ==
    \A i \in 1..(Len(rows) - 1) : rows[i].pitch_number <= rows[i + 1].pitch_number

KeepRowOrder(rows) == {rows}

\* atbat.sort_values('pitch_number'): the default kind is quicksort, which
\* is not stable, so rows with equal pitch numbers come in any order.
SortOutcomes(rows) ==
    {[i \in 1..Len(rows) |-> rows[p[i]]] :
        p \in {q \in Permutations(1..Len(rows)) :
                 IsSortedByPitchNumber([i \in 1..Len(rows) |-> rows[q[i]]])}}

RECURSIVE StableSort(_)
\* The outcome of sort_values that keeps rows with equal pitch numbers in
\* row order.
StableSort(rows) ==
    IF rows = <<>> THEN <<>>
    ELSE LET n == Len(rows)
             front == StableSort(SubSeq(rows, 1, n - 1))
             k == Cardinality({i \in 1..(n - 1) :
                      front[i].pitch_number <= rows[n].pitch_number})
         IN  SubSeq(front, 1, k) \o <<rows[n]>> \o SubSeq(front, k + 1, n - 1)

RECURSIVE Join(_)
\* '-'.join(...)
Join(strs) ==
    IF strs = <<>> THEN ""
    ELSE IF Len(strs) = 1 THEN strs[1]
    ELSE strs[1] \o "-" \o Join(Tail(strs))

\* s[-2:]
LastTwo(s) == IF Len(s) <= 2 THEN s ELSE SubSeq(s, Len(s) - 1, Len(s))

count_key(row) == ToString(row.balls) \o "-" \o ToString(row.strikes)
matchup_key(row) == row.stand \o "-" \o row.p_throws
pitch_zone(row) == row.pitch_type \o "-" \o ToString(row.zone)
first_pitch_context(row) == matchup_key(row) \o "|" \o count_key(row)

\* atbat[atbat['pitch_number'] < pitch_num]['pitch_type'].tolist()
prev_pitches(ab, pitch_num) ==
    LET before == SelectSeq(ab, LAMBDA r : r.pitch_number < pitch_num)
    IN  [i \in 1..Len(before) |-> before[i].pitch_type]

sequence_key(ab, row) ==
    IF row.pitch_number > 1
    THEN Join(LastTwo(prev_pitches(ab, row.pitch_number)))
    ELSE "first"

context_key_of(ab, row) ==
    matchup_key(row) \o "|" \o count_key(row) \o "|" \o sequence_key(ab, row)
        \o "|p" \o ToString(row.pitch_number)

EmptyTables ==
    [success_patterns |-> <<>>, first_pitch_patterns |-> <<>>,
     first_pitch_by_type |-> <<>>, count_patterns |-> <<>>,
     matchup_patterns |-> <<>>]

ProcessRowFallbackLaterOnly(T, ab, row) ==
    IF row.pitch_number = 1
    THEN [T EXCEPT
            !.first_pitch_patterns =
                Incr(@, first_pitch_context(row), pitch_zone(row)),
            !.first_pitch_by_type = Incr(@, row.pitch_type, row.zone),
            !.success_patterns = Incr(@, context_key_of(ab, row), pitch_zone(row))]
    ELSE [T EXCEPT
            !.success_patterns = Incr(@, context_key_of(ab, row), pitch_zone(row)),
            !.count_patterns = Incr(@, count_key(row), pitch_zone(row)),
            !.matchup_patterns = Incr(@, matchup_key(row), pitch_zone(row))]

\* One pass of the inner loop body (lines 75-100) on the five tables.
ProcessRow(T, ab, row) ==
    LET T1 == IF row.pitch_number = 1
              THEN [T EXCEPT
                      !.first_pitch_patterns =
                          Incr(@, first_pitch_context(row), pitch_zone(row)),
                      !.first_pitch_by_type =
                          Incr(@, row.pitch_type, row.zone)]
              ELSE T
    IN  [T1 EXCEPT
            !.success_patterns = Incr(@, context_key_of(ab, row), pitch_zone(row)),
            !.count_patterns = Incr(@, count_key(row), pitch_zone(row)),
            !.matchup_patterns = Incr(@, matchup_key(row), pitch_zone(row))]

RECURSIVE ProcessAtBat(_, _, _)
\* The inner loop over the rows of one sorted at-bat, from row i on.
ProcessAtBat(T, ab, i) ==
    IF i > Len(ab) THEN T
    ELSE ProcessAtBat(ProcessRow(T, ab, ab[i]), ab, i + 1)

RECURSIVE ProcessGroups(_, _, _, _)
ProcessGroups(T, rows, keys, i) ==
    IF i > Len(keys) THEN T
    ELSE ProcessGroups(
             ProcessAtBat(T, StableSort(GroupRows(rows, keys[i])), 1),
             rows, keys, i + 1)

\* The whole aggregation pass (lines 64-100) over cleaned rows in the given
\* row order, with the order-keeping outcome of every sort.
Aggregate(rows) == ProcessGroups(EmptyTables, rows, group_keys(rows), 1)

RECURSIVE SumFn(_)
\* sum(d.values())
SumFn(f) ==
    IF DOMAIN f = {} THEN 0
    ELSE LET k == CHOOSE x \in DOMAIN f : TRUE
         IN  f[k] + SumFn([x \in DOMAIN f \ {k} |-> f[x]])

effectiveness_unnormalized(cnt, total_for_pitch, base_freq) ==
    Frac(cnt, total_for_pitch)

\* (count / total_for_pitch) / max(base_freq, 0.01)
effectiveness(cnt, total_for_pitch, base_freq) ==
    FracDiv(Frac(cnt, total_for_pitch), FracMax(base_freq, FreqFloor))

\* Lines 108-117 on the per-pitch-type zone tally.
optimal_zones_of(by_type, freq) ==
    [t \in {u \in DOMAIN by_type : SumFn(by_type[u]) > 0} |->
        [z \in DOMAIN by_type[t] |->
            effectiveness(by_type[t][z], SumFn(by_type[t]),
                          IF t \in DOMAIN freq THEN freq[t] ELSE FreqFloor)]]

\* {str(k): float(v) for k, v in zones.items()}
str_keys(f) ==
    [k \in {ToString(z) : z \in DOMAIN f} |->
        f[CHOOSE z \in DOMAIN f : ToString(z) = k]]

\* The document written to public/model_data.json (lines 120-167).
model_document ==
    [encoders |->
        [pitch_types |-> {r.pitch_type : r \in Range(df)},
         descriptions |-> {r.description : r \in Range(df)},
         pitch_frequencies |-> pitch_type_freq],
     patterns |-> success_patterns,
     first_pitch_patterns |-> first_pitch_patterns,
     count_patterns |-> count_patterns,
     matchup_patterns |-> matchup_patterns,
     optimal_zones |->
        [t \in DOMAIN optimal_zones_by_pitch |->
            str_keys(optimal_zones_by_pitch[t])]]

\* The corpus drawn: up to MaxRows rows with pitch numbers up to
\* MaxPitchNumber.
MaxRows == 3
MaxPitchNumber == 3

\* At-bats, as (game_date, pitcher, batter, at_bat_number).  AtBatB differs
\* from AtBatA in the batter alone; the others differ from it in the at-bat
\* number, or in the game and the pitcher.
AtBatA == <<1, 1, 1, 1>>
AtBatB == <<1, 1, 2, 1>>
AtBatC == <<1, 1, 1, 2>>
AtBatD == <<2, 2, 1, 1>>
PitchTypes == {"fastball", "slider"}
Zones == {1, 5}

\* Batter 1 stands right and batter 2 left, both pitchers throw right, and
\* the count before pitch 1, 2, 3, 4 is 0-0, 0-1, 1-1, 1-2.
MkRow(id, pn, pt, z) ==
    [game_date |-> id[1], pitcher |-> id[2], batter |-> id[3],
     at_bat_number |-> id[4], pitch_number |-> pn, pitch_type |-> pt,
     description |-> "swinging_strike", type |-> "S",
     stand |-> IF id[3] = 1 THEN "R" ELSE "L",
     p_throws |-> "R",
     balls |-> (pn - 1) \div 2, strikes |-> pn \div 2,
     zone |-> z]

\* The rows a corpus is made of: the first pitch of at-bats A, C and D (a
\* fastball to zone 1 or 5, or a slider to zone 1); the later pitches of
\* at-bat A (either type, to zone 1); a first pitch of at-bat B; and a row
\* whose pitch type is missing.
Rows ==
    {MkRow(id, 1, pz[1], pz[2]) :
        id \in {AtBatA, AtBatC, AtBatD},
        pz \in {<<"fastball", 1>>, <<"fastball", 5>>, <<"slider", 1>>}}
    \cup {MkRow(AtBatA, pn, pt, 1) : pn \in 2..MaxPitchNumber, pt \in PitchTypes}
    \cup {MkRow(AtBatB, 1, "fastball", 1), MkRow(AtBatA, 1, NA, 1)}

Corpora == UNION {[1..n -> Rows] : n \in 0..MaxRows}

InitTrain ==
    /\ pc = "load"
    /\ \/ file_exists = TRUE /\ corpus \in Corpora
       \/ file_exists = FALSE /\ corpus = <<>>
    /\ df = <<>>
    /\ pitch_type_freq = <<>> /\ total_pitches = 0
    /\ grouped = <<>> /\ group_idx = 0 /\ atbat = <<>> /\ pos = 0
    /\ atbat_count = 0 /\ pitches_done = 0 /\ context_key = ""
    /\ success_patterns = <<>> /\ first_pitch_patterns = <<>>
    /\ first_pitch_by_type = <<>> /\ count_patterns = <<>>
    /\ matchup_patterns = <<>> /\ optimal_zones_by_pitch = <<>>
    /\ model_data = <<>>
    /\ ZoneIdle
    /\ CollectIdle

\* pd.read_parquet: raises when the file is absent, and the script ends.
Load ==
    /\ pc = "load"
    /\ IF file_exists
       THEN df' = corpus /\ pc' = "clean"
       ELSE df' = df /\ pc' = "crashed"
    /\ UNCHANGED <<file_exists, corpus, pitch_type_freq, total_pitches,
                   grouped, group_idx, atbat, pos, atbat_count, pitches_done,
                   context_key, tableVars, optimal_zones_by_pitch, model_data>>
    /\ UNCHANGED <<zoneVars, collectVars>>

\* Lines 24-30: dropna, the pitch_number coercion.
Clean ==
    /\ pc = "clean"
    /\ df' = clean(df)
    /\ pc' = "fit"
    /\ UNCHANGED <<file_exists, corpus, pitch_type_freq, total_pitches,
                   grouped, group_idx, atbat, pos, atbat_count, pitches_done,
                   context_key, tableVars, optimal_zones_by_pitch, model_data>>
    /\ UNCHANGED <<zoneVars, collectVars>>

\* Lines 33-66: the encoders, the pitch type frequencies, the empty tables,
\* the groupby.  No step of these tests for an empty df.
Fit ==
    /\ pc = "fit"
    /\ pitch_type_freq' = pitch_type_freq_of(df)
    /\ total_pitches' = Len(df)
    /\ grouped' = group_keys(df)
    /\ group_idx' = 0
    /\ atbat_count' = 0
    /\ pc' = "groups"
    /\ UNCHANGED <<file_exists, corpus, df, atbat, pos, pitches_done,
                   context_key, tableVars, optimal_zones_by_pitch, model_data>>
    /\ UNCHANGED <<zoneVars, collectVars>>

\* for _, atbat in grouped: the sort, atbat_count += 1.
NextAtBat ==
    /\ pc = "groups"
    /\ group_idx < Len(grouped)
    /\ group_idx' = group_idx + 1
    /\ atbat' \in SortOutcomes(GroupRows(df, grouped[group_idx + 1]))
    /\ atbat_count' = atbat_count + 1
    /\ pos' = 1
    /\ pc' = "pitches"
    /\ UNCHANGED <<file_exists, corpus, df, pitch_type_freq, total_pitches,
                   grouped, pitches_done, context_key, tableVars,
                   optimal_zones_by_pitch, model_data>>
    /\ UNCHANGED <<zoneVars, collectVars>>

\* for i, row in atbat.iterrows(): one pass of the body.
ProcessPitch ==
    /\ pc = "pitches"
    /\ pos <= Len(atbat)
    /\ LET T == ProcessRow(
                    [success_patterns |-> success_patterns,
                     first_pitch_patterns |-> first_pitch_patterns,
                     first_pitch_by_type |-> first_pitch_by_type,
                     count_patterns |-> count_patterns,
                     matchup_patterns |-> matchup_patterns],
                    atbat, atbat[pos])
       IN  /\ success_patterns' = T.success_patterns
           /\ first_pitch_patterns' = T.first_pitch_patterns
           /\ first_pitch_by_type' = T.first_pitch_by_type
           /\ count_patterns' = T.count_patterns
           /\ matchup_patterns' = T.matchup_patterns
    /\ context_key' = context_key_of(atbat, atbat[pos])
    /\ pitches_done' = pitches_done + 1
    /\ pos' = pos + 1
    /\ pc' = IF pos = Len(atbat) THEN "groups" ELSE "pitches"
    /\ UNCHANGED <<file_exists, corpus, df, pitch_type_freq, total_pitches,
                   grouped, group_idx, atbat, atbat_count,
                   optimal_zones_by_pitch, model_data>>
    /\ UNCHANGED <<zoneVars, collectVars>>

\* Lines 108-117, after the last group.
Score ==
    /\ pc = "groups"
    /\ group_idx = Len(grouped)
    /\ optimal_zones_by_pitch' = optimal_zones_of(first_pitch_by_type, pitch_type_freq)
    /\ pc' = "save"
    /\ UNCHANGED <<file_exists, corpus, df, pitch_type_freq, total_pitches,
                   grouped, group_idx, atbat, pos, atbat_count, pitches_done,
                   context_key, tableVars, model_data>>
    /\ UNCHANGED <<zoneVars, collectVars>>

\* Lines 120-169: the document is written.
Save ==
    /\ pc = "save"
    /\ model_data' = <<model_document>>
    /\ pc' = "done"
    /\ UNCHANGED <<file_exists, corpus, df, pitch_type_freq, total_pitches,
                   grouped, group_idx, atbat, pos, atbat_count, pitches_done,
                   context_key, tableVars, optimal_zones_by_pitch>>
    /\ UNCHANGED <<zoneVars, collectVars>>

NextTrain == Load \/ Clean \/ Fit \/ NextAtBat \/ ProcessPitch \/ Score \/ Save

SpecTrain == InitTrain /\ [][NextTrain]_vars

Init == InitZone \/ InitCollect \/ InitTrain
Next == NextZone \/ NextCollect \/ NextTrain
Spec == Init /\ [][Next]_vars

----------------------------------------------------------------------------
(* C1: a call with a missing coordinate returns null; a call with both      *)
(* coordinates inside the closed rectangle [-0.83, 0.83] x [1.5, 3.5]       *)
(* returns a zone in 1..9; every other call returns a zone in 10..25.       *)
C1_ZonePartition ==
    zpc = "returned" =>
        IF plate_x = NaN \/ plate_z = NaN THEN zone = None
        ELSE IF /\ -249 <= plate_x /\ plate_x <= 249
                /\ 450 <= plate_z /\ plate_z <= 1050
             THEN zone \in 1..9
        ELSE zone \in 10..25

\* A call returned for a point on an edge of the rectangle (x = 0.83 ft).
C1_Witness ==
    /\ zpc = "returned"
    /\ plate_x = 249
    /\ plate_z \in {450, 1050}
    /\ zone \in 1..9

(* C8: outside the rectangle the bands above and below win over the sides:  *)
(* z > 3.5 gives 10..14 and z < 1.5 gives 21..25 for every x, the corners   *)
(* being 10, 14, 21, 25; 15, 17, 19 (left) and 16, 18, 20 (right) are       *)
(* returned only for 1.5 <= z <= 3.5 with x outside [-0.83, 0.83].          *)
C8_BandsBeforeSides ==
    (zpc = "returned" /\ plate_x # NaN /\ plate_z # NaN) =>
        /\ plate_z > 1050 => zone \in 10..14
        /\ plate_z < 450 => zone \in 21..25
        /\ (plate_z > 1050 /\ plate_x < -249) => zone = 10
        /\ (plate_z > 1050 /\ plate_x > 249) => zone = 14
        /\ (plate_z < 450 /\ plate_x < -249) => zone = 21
        /\ (plate_z < 450 /\ plate_x > 249) => zone = 25
        /\ zone \in {15, 17, 19} =>
               (450 <= plate_z /\ plate_z <= 1050 /\ plate_x < -249)
        /\ zone \in {16, 18, 20} =>
               (450 <= plate_z /\ plate_z <= 1050 /\ plate_x > 249)

\* A call returned for a point above and to the left of the rectangle.
C8_Witness ==
    /\ zpc = "returned"
    /\ plate_x # NaN /\ plate_x < -249
    /\ plate_z > 1050
    /\ zone = 10

----------------------------------------------------------------------------
(* Claims about the trainer                                                 *)

TablesNow ==
    [success_patterns |-> success_patterns,
     first_pitch_patterns |-> first_pitch_patterns,
     first_pitch_by_type |-> first_pitch_by_type,
     count_patterns |-> count_patterns,
     matchup_patterns |-> matchup_patterns]

SumTable(tbl) == SumFn([k \in DOMAIN tbl |-> SumFn(tbl[k])])

Cell(tbl, k, t) ==
    IF k \in DOMAIN tbl /\ t \in DOMAIN tbl[k] THEN tbl[k][t] ELSE 0

Cells(tbl) == {<<k, t>> : k \in DOMAIN tbl, t \in UNION {DOMAIN tbl[j] : j \in DOMAIN tbl}}

\* The key the claim describes for the row at position i of a sorted at-bat.
KeyByPosition(ab, i) ==
    ab[i].stand \o "-" \o ab[i].p_throws \o "|"
        \o ToString(ab[i].balls) \o "-" \o ToString(ab[i].strikes) \o "|"
        \o (IF i = 1 THEN "first"
            ELSE IF i = 2 THEN ab[1].pitch_type
            ELSE ab[i - 2].pitch_type \o "-" \o ab[i - 1].pitch_type)
        \o "|p" \o ToString(i)

(* C2: the full-context key built for the pitch at position i of its sorted *)
(* at-bat is stance-throws|balls-strikes|sequence|p{i}, the sequence being  *)
(* the types of the at most two pitches just before position i, or "first"  *)
(* exactly when i = 1, also when the pitch numbers have gaps or duplicates. *)
C2_KeyByPosition ==
    (pc \in {"pitches", "groups"} /\ pitches_done > 0) =>
        context_key = KeyByPosition(atbat, pos - 1)

(* C3: every at-bat processed adds exactly one to the first-pitch table and *)
(* to the per-pitch-type zone tally, so that between at-bats and after the  *)
(* pass both totals equal the number of at-bats processed.                  *)
C3_OneFirstPitchPerAtBat ==
    pc \in {"groups", "save", "done"} =>
        /\ SumTable(first_pitch_patterns) = atbat_count
        /\ SumTable(first_pitch_by_type) = atbat_count

(* C4: the rows of the at-bat being processed are exactly the rows of df    *)
(* that agree with it on game, pitcher, batter and at-bat number; rows that *)
(* differ in the batter are never in one at-bat.                            *)
C4_AtBatSharesFourKeys ==
    pc = "pitches" =>
        \A i \in 1..Len(df) :
            (df[i] \in Range(atbat)) <=>
                (GroupKeyWithBatter(df[i]) = GroupKeyWithBatter(atbat[1]))

(* C5: when no row is left after normalization the run aborts before the   *)
(* document is written: public/model_data.json is never written.            *)
C5_EmptyCorpusNeverWritten ==
    (file_exists /\ pc \notin {"load", "clean"} /\ df = <<>>) =>
        (model_data = <<>> /\ pc # "done")

\* The row order itself and the orders one exchange of two neighbouring
\* rows away from it.  Every ordering of a corpus is itself a corpus the
\* pass runs on here, and exchanges of neighbours lead from any ordering of
\* a multiset to any other, so tables that agree across Reorderings of
\* every corpus agree across all orderings of every multiset.
Reorderings(seq) ==
    {seq} \cup
    {[i \in 1..Len(seq) |->
         IF i = k THEN seq[k + 1] ELSE IF i = k + 1 THEN seq[k] ELSE seq[i]] :
     k \in 1..(Len(seq) - 1)}

\* No group of the aggregation has two rows with one pitch number and
\* different pitch types.
NoTiedTypes(rows) ==
    \A i, j \in 1..Len(rows) :
        (GroupKey(rows[i]) = GroupKey(rows[j])
            /\ rows[i].pitch_number = rows[j].pitch_number)
        => rows[i].pitch_type = rows[j].pitch_type

(* C6, as claimed: the tables of the finished pass are those of the pass    *)
(* over the same normalized rows in another order, at-bats with duplicate   *)
(* pitch numbers included.                                                  *)
C6_OrderIndependent ==
    pc = "done" =>
        \A rows \in Reorderings(df) : Aggregate(rows) = TablesNow

(* C6, amended: the first-pitch, count-only, matchup-only and per-type zone *)
(* tables of the finished pass are those of the pass over the same          *)
(* normalized rows in another order; so is the full-context table when no   *)
(* group has two rows with the same pitch number and different pitch types. *)
C6_OrderIndependentUnlessTied ==
    pc = "done" =>
        \A rows \in Reorderings(df) :
            LET T == Aggregate(rows)
            IN  /\ T.first_pitch_patterns = first_pitch_patterns
                /\ T.first_pitch_by_type = first_pitch_by_type
                /\ T.count_patterns = count_patterns
                /\ T.matchup_patterns = matchup_patterns
                /\ NoTiedTypes(df) => T.success_patterns = success_patterns

\* A finished pass over an at-bat of three pitches that the file holds in
\* another order than their pitch numbers, with no tie.
C6_Witness ==
    /\ pc = "done"
    /\ Len(df) = 3
    /\ NoTiedTypes(df)
    /\ \A i \in 1..3 : GroupKey(df[i]) = GroupKey(df[1])
    /\ df[1].pitch_number = 3 /\ df[2].pitch_number = 1 /\ df[3].pitch_number = 2
    /\ df[2].pitch_type # df[3].pitch_type

OneCellUp(old, new) ==
    \E c \in Cells(new) :
        /\ Cell(new, c[1], c[2]) = Cell(old, c[1], c[2]) + 1
        /\ \A d \in (Cells(new) \cup Cells(old)) \ {c} :
               Cell(new, d[1], d[2]) = Cell(old, d[1], d[2])

(* C7: after every prefix of the pass the counts of the full-context table, *)
(* of the count-only table and of the matchup-only table each sum to the    *)
(* number of pitches processed; a pitch adds 1 to exactly one cell of each  *)
(* of the three, and no other step changes them.                            *)
C7_OneIncrementPerPitch ==
    [][ /\ SumTable(success_patterns') = pitches_done'
        /\ SumTable(count_patterns') = pitches_done'
        /\ SumTable(matchup_patterns') = pitches_done'
        /\ pitches_done' = pitches_done + 1 =>
              /\ OneCellUp(success_patterns, success_patterns')
              /\ OneCellUp(count_patterns, count_patterns')
              /\ OneCellUp(matchup_patterns, matchup_patterns')
        /\ pitches_done' # pitches_done + 1 =>
              /\ pitches_done' = pitches_done
              /\ success_patterns' = success_patterns
              /\ count_patterns' = count_patterns
              /\ matchup_patterns' = matchup_patterns
      ]_vars

\* Three pitches of one at-bat processed, the first of them a first pitch.
C7_Witness ==
    /\ pc = "groups"
    /\ pitches_done = 3
    /\ Len(atbat) = 3
    /\ atbat[1].pitch_number = 1
    /\ SumTable(first_pitch_patterns) = 1
    /\ SumTable(count_patterns) = 3

\* The corpus of the worked example: three at-bats of one pitch each, a
\* fastball at 0-0 from a right-hander to a right-handed batter, to zones
\* 5, 1 and 1.
IsExampleCorpus(rows) ==
    /\ Len(rows) = 3
    /\ \A i \in 1..3 :
          /\ rows[i].pitch_number = 1 /\ rows[i].pitch_type = "fastball"
          /\ rows[i].stand = "R" /\ rows[i].p_throws = "R"
          /\ rows[i].balls = 0 /\ rows[i].strikes = 0
    /\ \A i, j \in 1..3 :
          i # j => GroupKeyWithBatter(rows[i]) # GroupKeyWithBatter(rows[j])
    /\ Cardinality({i \in 1..3 : rows[i].zone = 5}) = 1
    /\ Cardinality({i \in 1..3 : rows[i].zone = 1}) = 2

RECURSIVE SeasonPartitions(_, _)
\* The date ranges of one season from day d on, 31 days each, the last cut
\* at October 31.
SeasonPartitions(y, d) ==
    IF d > 245 THEN <<>>
    ELSE LET e == IF d + 30 > 245 THEN 245 ELSE d + 30
         IN  <<[year |-> y, from |-> d, to |-> e]>> \o SeasonPartitions(y, e + 1)

RECURSIVE AllPartitions(_)
AllPartitions(ys) ==
    IF ys = <<>> THEN <<>>
    ELSE SeasonPartitions(Head(ys), 1) \o AllPartitions(Tail(ys))

IsPrefix(s, t) == Len(s) <= Len(t) /\ SubSeq(t, 1, Len(s)) = s

(* C10: a fetch that raises is not fatal.  The step of a failed fetch keeps *)
(* all_data as it was and goes on to the next date range; all_data only     *)
(* ever grows; when the loop is over every date range of every season has   *)
(* been requested, whatever failed; and unless nothing at all was collected *)
(* the run reaches processing with df holding every collected row.          *)
C10_FetchFailureNotFatal ==
    [][ /\ (requested' # requested /\ month_result' = "error") =>
              /\ all_data' = all_data
              /\ cpc' = "while"
              /\ current' = requested'[Len(requested')].to + 1
        /\ IsPrefix(all_data, all_data')
        /\ (cpc = "for" /\ cpc' \in {"processing", "exit1"}) =>
              /\ requested' = AllPartitions(years)
              /\ cpc' = "exit1" <=> all_data = <<>>
              /\ cpc' = "processing" => cdf' = concat(all_data)
      ]_vars

\* The last date range of the last season failed, rows collected earlier
\* are in df at the processing stage.
C10_Witness ==
    /\ cpc = "processing"
    /\ month_result = "error"
    /\ Len(requested) > Len(all_data) + 1
    /\ cdf # <<>>
    /\ \E i \in 1..Len(cdf) : cdf[i].year = years[1]

\* The date ranges requested so far for season y, in request order.
SeasonRequests(y) == SelectSeq(requested, LAMBDA r : r.year = y)

\* The while loop of season number s is over.
SeasonOver(s) == ~(s = year_idx /\ cpc = "while" /\ current <= end_date)

\* Day d lies in exactly one of the ranges P.
InExactlyOne(P, d) ==
    Cardinality({i \in 1..Len(P) : P[i].from <= d /\ d <= P[i].to}) = 1

\* The requests of every season begun so far start on March 1, are inclusive
\* non-empty ranges, each starting the day after the one before ends, and
\* once the season's loop is over the last ends on October 31.  For the
\* season of the loop, current is the day after the last range, and once its
\* loop is over every day of the season lies in exactly one range.
TilesSeasons ==
    /\ \A s \in 1..year_idx :
           LET P == SeasonRequests(years[s])
           IN  /\ \A i \in 1..Len(P) : P[i].from <= P[i].to
               /\ Len(P) > 0 => P[1].from = start_date
               /\ \A i \in 1..(Len(P) - 1) : P[i + 1].from = P[i].to + 1
               /\ SeasonOver(s) => Len(P) > 0 /\ P[Len(P)].to = end_date
    /\ year_idx > 0 =>
           LET P == SeasonRequests(years[year_idx])
           IN  /\ current = IF Len(P) = 0 THEN start_date ELSE P[Len(P)].to + 1
               /\ SeasonOver(year_idx) =>
                      \A d \in start_date..end_date : InExactlyOne(P, d)

(* C11: for each season the pagination loop terminates and the inclusive   *)
(* ranges [current, chunk_end] it requests tile the season: the first      *)
(* starts on March 1, the last ends on October 31, each next one starts    *)
(* the day after the previous one ends, so every day from March 1 to       *)
(* October 31 lies in exactly one requested range, whether or not fetches  *)
(* fail; and the loop over the seasons ends.                               *)
C11_PartitionsTileSeason ==
    /\ []TilesSeasons
    /\ \A s \in 1..Len(years) :
           (cpc = "while" /\ year_idx = s) ~> (cpc = "for" /\ year_idx = s)
    /\ <>(cpc \in {"processing", "exit1"})

\* A season's loop is over, its last fetch raised, and its ranges, more than
\* one of them, the last one cut short at October 31, cover the season.
C11_Witness ==
    /\ cpc = "for"
    /\ year_idx = 1
    /\ month_result = "error"
    /\ LET P == SeasonRequests(years[1])
       IN  /\ Len(P) > 1
           /\ P[1].from = start_date
           /\ P[Len(P)].to = end_date
           /\ P[Len(P)].to - P[Len(P)].from < ChunkDays
           /\ all_data = <<>>

====
